---- MODULE Spec2Model ----
(***************************************************************************)
(* Model of servers/hr_monitor/src/assumption_free.py: the streaming       *)
(* anomaly detector AssumptionFreeAA (Wei et al., SSDBM 2005).             *)
(*                                                                         *)
(* Numbers.  Samples are integers.  Every float the code computes from     *)
(* them is a real number, and the model computes with the real numbers: a *)
(* bitmap cell count/max is the reduced fraction <<num, den>>, a score is  *)
(* a reduced fraction, and the comparison of a standardised section mean   *)
(* with a Gaussian breakpoint is done on squares of integers.  The         *)
(* rounding of float64 is not modelled.  For integer samples the mean of   *)
(* equal samples is exact, so that a constant slice has std = 0.0 in the   *)
(* model and in numpy alike; the float values that are no numbers are      *)
(* modelled by what numpy does with them: 1.0/0.0 is inf, 0*inf is nan,    *)
(* and every comparison with nan is False.                                 *)
(*                                                                         *)
(* Letters.  A SAX letter string.ascii_letters[ind] is modelled by its     *)
(* index ind (0 is "a", 1 is "b", ...): a word is a sequence of indices,   *)
(* and the order of Python strings is the lexicographic order of these     *)
(* sequences.                                                              *)
(*                                                                         *)
(* numpy.  The code passes the float sqrt(len(freqs)) as an array shape    *)
(* and uses floats as indices, which the numpy releases the code was       *)
(* written for accept when the float is integral; the model follows them.  *)
(***************************************************************************)
EXTENDS Integers, Sequences, FiniteSets, TLC

VARIABLES
    word_size,          \* self._word_size
    window_size,        \* self._window_size
    lead_window_size,   \* self._lead_window_size (maxlen of the lead deque)
    lag_window_size,    \* self._lag_window_size (maxlen of the lag deque)
    recursion_level,    \* self._recursion_level
    lead_window,        \* self._lead_window, oldest sample first
    lag_window,         \* self._lag_window, oldest sample first
    last_timestamp,     \* self.last_timestamp
    stream,             \* history: every sample appended to the lead window so far
    call,               \* history: the last detect call, the detector it met, how it ended
    one_per_call,       \* history: every detect call so far passed exactly one sample
    probe               \* the last call of a classmethod made directly, and its outcome

vars == <<word_size, window_size, lead_window_size, lag_window_size,
          recursion_level, lead_window, lag_window, last_timestamp,
          stream, call, one_per_call, probe>>

(***************************************************************************)
(* Bounds of the model.                                                    *)
(***************************************************************************)
MaxBatch == 3           \* a detect call passes at most MaxBatch samples
MaxWordSize == 2        \* word_size is drawn from 1..MaxWordSize
MaxWindowFactor == 2    \* window_factor is drawn from 1..MaxWindowFactor
MaxFactor == 1          \* lead_ and lag_window_factor are drawn from 0..MaxFactor
MaxUniverse == 4        \* detectors are built with universe_size <= MaxUniverse
MaxExtra == 2           \* a detector is fed universe_size + MaxExtra samples
MaxVal == 3             \* a window passed to _get_words holds samples of 1..MaxVal
MaxWindow == 4          \* and at most MaxWindow of them
MaxWords == 2           \* a list passed to _count_frequencies holds at most MaxWords
MaxLetters == 4         \* words, of at most MaxLetters letters in all
MaxSubword == 2         \* subword_len is drawn from 1..MaxSubword
MaxRamp == 12           \* the example's detector is fed the samples 1..MaxRamp

\* The samples fed to a detector: two values give constant and non-constant
\* slices, equal and different windows.
Samples == {1, 2}
\* The timestamps passed to detect: datetime.min is below them all, and a
\* call passes another timestamp than the call before it.
Timestamps == {1, 2}
\* The letters of the words passed to _count_frequencies: "a" and "b".
WordLetters == {0, 1}

(***************************************************************************)
(* Program constants.                                                      *)
(***************************************************************************)
AlphbtSize == 4         \* _sax(alphbt_size=4): _get_words never overrides it
DefaultRecursionLevel == 2
TimestampMin == 0       \* datetime.min
\* norm.ppf(0.75) = 0.6744897501960817 is the breakpoint b of a 4-letter
\* alphabet; b^2 = 0.4549364231..., and BreakSqNum/BreakSqDen =
\* 0.4549364614... is a convergent of its continued fraction.
BreakSqNum == 2327
BreakSqDen == 5115

(***************************************************************************)
(* Helpers: sums, fractions, the order of strings.                         *)
(***************************************************************************)
Range(s) == {s[i] : i \in DOMAIN s}

\* s[lo] + ... + s[hi]
RECURSIVE SumRange(_, _, _)
SumRange(s, lo, hi) == IF lo > hi THEN 0 ELSE s[lo] + SumRange(s, lo + 1, hi)

RECURSIVE Gcd(_, _)
Gcd(a, b) == IF b = 0 THEN a ELSE Gcd(b, a % b)

\* The float a/b of two non-negative integers, b > 0, as a reduced fraction.
Reduce(a, b, g) == <<a \div g, b \div g>>
Frac(a, b) == Reduce(a, b, Gcd(a, b))

FracAdd(p, q) == Frac(p[1] * q[2] + q[1] * p[2], p[2] * q[2])

\* Python's str order: a < b.
RECURSIVE StrLessFrom(_, _, _)
StrLessFrom(a, b, i) ==
    IF i > Len(a) THEN i <= Len(b)
    ELSE IF i > Len(b) THEN FALSE
    ELSE IF a[i] # b[i] THEN a[i] < b[i]
    ELSE StrLessFrom(a, b, i + 1)

StrLess(a, b) == StrLessFrom(a, b, 1)

RECURSIVE SetToSeq(_)
SetToSeq(S) ==
    IF S = {} THEN <<>>
    ELSE LET x == CHOOSE y \in S : TRUE IN <<x>> \o SetToSeq(S \ {x})

\* sorted(keys)
Sorted(S) == SortSeq(SetToSeq(S), StrLess)

\* All sequences over S of length 0..n.
LongerBy(shorter, S, n) ==
    shorter \cup {Append(s, x) : s \in {t \in shorter : Len(t) = n - 1}, x \in S}

RECURSIVE SeqsUpTo(_, _)
SeqsUpTo(S, n) ==
    IF n = 0 THEN {<<>>} ELSE LongerBy(SeqsUpTo(S, n - 1), S, n)

(***************************************************************************)
(* _sax (lines 48-94), with alphbt_size = 4.                               *)
(***************************************************************************)
Raised == [raised |-> TRUE]     \* an exception leaves the function

\* np.array_split(data, word_size): the first n % sections sections hold one
\* element more than the others.  Section k (1-based) is lo..hi.
SectionBounds(n, sections, k) ==
    LET q == n \div sections
        r == n % sections
        lo == (k - 1) * q + (IF k - 1 < r THEN k - 1 ELSE r) + 1
        size == q + (IF k <= r THEN 1 ELSE 0)
    IN  [lo |-> lo, hi |-> lo + size - 1]

\* Line 64 times N = Len(data): dev[i] = N * (data[i] - mean), an integer.
DeviationsFrom(data, N, total) == [i \in 1..N |-> N * data[i] - total]
Deviations(data) == DeviationsFrom(data, Len(data), SumRange(data, 1, Len(data)))

\* N^3 * std^2
RECURSIVE SumSquares(_, _)
SumSquares(dev, i) ==
    IF i > Len(dev) THEN 0 ELSE dev[i] * dev[i] + SumSquares(dev, i + 1)

\* np.where(breakpoints > section_mean)[0] (line 82): the indices of the
\* breakpoints above the mean v of a section of the scaled data.  The
\* section has k elements whose deviations sum to D, and Q = SumSquares:
\* v = D / (k * sqrt(Q/N)), so v^2 = D^2 * N / (k^2 * Q), and the
\* breakpoints are -b, 0, b, inf with b = norm.ppf(0.75).
\* v is nan for an empty section (np.mean of nothing) and when std = 0
\* (line 65 gives scaled_data = 0 * inf); no breakpoint is above nan.
AboveMean(N, Q, k, D) ==
    IF k = 0 \/ Q = 0 THEN {}
    ELSE IF D < 0
    THEN IF D * D * N * BreakSqDen > BreakSqNum * k * k * Q
         THEN 0..(AlphbtSize - 1) ELSE 1..(AlphbtSize - 1)
    ELSE IF D * D * N * BreakSqDen >= BreakSqNum * k * k * Q
         THEN 3..(AlphbtSize - 1) ELSE 2..(AlphbtSize - 1)

BreakpointsAbove(dev, Q, b) ==
    AboveMean(Len(dev), Q, b.hi - b.lo + 1, SumRange(dev, b.lo, b.hi))

SectionsAbove(dev, Q, wsize) ==
    [k \in 1..wsize |-> BreakpointsAbove(dev, Q, SectionBounds(Len(dev), wsize, k))]

\* A variant that gives a section whose mean is nan the middle letter.
SaxWordGuarded(above) ==
    [raised |-> FALSE,
     word |-> [k \in DOMAIN above |->
                 IF above[k] = {} THEN 2
                 ELSE CHOOSE i \in above[k] : \A j \in above[k] : i <= j]]

\* Lines 79-92.  [0][0] on an empty index array raises IndexError, which the
\* except clause prints and re-raises.
SaxWord(above) ==
    IF \E k \in DOMAIN above : above[k] = {} THEN Raised
    ELSE [raised |-> FALSE,
          word |-> [k \in DOMAIN above |->
                      CHOOSE i \in above[k] : \A j \in above[k] : i <= j]]

SaxOf(dev, wsize) == SaxWord(SectionsAbove(dev, SumSquares(dev, 1), wsize))

Sax(data, wsize) == SaxOf(Deviations(data), wsize)

(***************************************************************************)
(* _dist (lines 97-102): the sum of the squared cell differences.          *)
(***************************************************************************)
\* (p - q)^2
SqDiff(p, q) ==
    Frac((p[1] * q[2] - q[1] * p[2]) * (p[1] * q[2] - q[1] * p[2]),
         p[2] * p[2] * q[2] * q[2])

\* (p + q)^2
SqSum(p, q) ==
    Frac((p[1] * q[2] + q[1] * p[2]) * (p[1] * q[2] + q[1] * p[2]),
         p[2] * p[2] * q[2] * q[2])

RECURSIVE SumSqDiff(_, _, _)
SumSqDiff(A, B, i) ==
    IF i > Len(A) THEN <<0, 1>>
    ELSE FracAdd(SqDiff(A[i], B[i]), SumSqDiff(A, B, i + 1))

RECURSIVE SumSqSum(_, _, _)
SumSqSum(A, B, i) ==
    IF i > Len(A) THEN <<0, 1>>
    ELSE FracAdd(SqSum(A[i], B[i]), SumSqSum(A, B, i + 1))

\* A variant that adds the bitmaps where the code subtracts them.
DistOfSums(A, B) == SumSqSum(A, B, 1)

\* A and B are the cells of two bitmaps of one shape.
Dist(A, B) == SumSqDiff(A, B, 1)

(***************************************************************************)
(* _build_combinations (lines 105-122).                                    *)
(***************************************************************************)
Singles(alphabet) == {<<a>> : a \in Range(alphabet)}

Extend(alphabet, combinations) ==
    {Append(c, a) : a \in Range(alphabet), c \in combinations}

\* With an empty alphabet every call finds combinations empty again, until
\* combination_len runs out: the result is the empty set, which is cs.
RECURSIVE BuildCombinations(_, _, _)
BuildCombinations(alphabet, combinations, combination_len) ==
    LET fresh == combinations = {}
        cs == IF fresh THEN Singles(alphabet) ELSE combinations
        len == IF fresh THEN combination_len - 1 ELSE combination_len
    IN  IF len <= 0 \/ cs = {} THEN cs
        ELSE BuildCombinations(alphabet, Extend(alphabet, cs), len - 1)

(***************************************************************************)
(* _count_substr (lines 126-137).                                          *)
(***************************************************************************)
\* A variant that counts matches that do not overlap (as str.count does):
\* the scan resumes behind a match.
RECURSIVE CountFrom(_, _, _)
CountFrom(stack, needle, i) ==
    IF i + Len(needle) - 1 > Len(stack) THEN 0
    ELSE IF SubSeq(stack, i, i + Len(needle) - 1) = needle
    THEN 1 + CountFrom(stack, needle, i + Len(needle))
    ELSE CountFrom(stack, needle, i + 1)

CountSubstrDisjoint(stack, needle) == CountFrom(stack, needle, 1)

CountSubstr(stack, needle) ==
    Cardinality({i \in 1..(Len(stack) - Len(needle) + 1) :
                    SubSeq(stack, i, i + Len(needle) - 1) = needle})

(***************************************************************************)
(* _count_frequencies (lines 140-154).                                     *)
(***************************************************************************)
\* freqs[key] after the loop of lines 150-152 from word number w on.
RECURSIVE CountInWords(_, _, _)
CountInWords(words, key, w) ==
    IF w > Len(words) THEN 0
    ELSE CountSubstr(words[w], key) + CountInWords(words, key, w + 1)

FrequenciesOf(words, combinations) ==
    [c \in combinations |-> CountInWords(words, c, 1)]

CountFrequencies(words, alphabet, subword_len) ==
    FrequenciesOf(words, BuildCombinations(alphabet, {}, subword_len))

(***************************************************************************)
(* _build_bitmap (lines 157-182).  A bitmap is [shape, cells]: cells is    *)
(* the array in row-major order, bitmap[i, j] being cells[i*shape + j + 1].*)
(***************************************************************************)
\* floor(sqrt(n))
ISqrt(n) == CHOOSE s \in 0..n : s * s <= n /\ (s + 1) * (s + 1) > n

Larger(a, b) == IF a > b THEN a ELSE b

\* max(freqs.values()), and the sum of the values
RECURSIVE MaxValue(_, _, _)
MaxValue(freqs, keys, k) ==
    IF k = Len(keys) THEN freqs[keys[k]]
    ELSE Larger(freqs[keys[k]], MaxValue(freqs, keys, k + 1))

RECURSIVE SumValue(_, _, _)
SumValue(freqs, keys, k) ==
    IF k > Len(keys) THEN 0 ELSE freqs[keys[k]] + SumValue(freqs, keys, k + 1)

\* np.zeros(shape=(shape, shape))
Zeros(shape) == [c \in 1..(shape * shape) |-> <<0, 1>>]

\* The loop of lines 170-180 from key number k on; i, j are the loop's i, j
\* before j = j % matrix_size.
RECURSIVE BitmapLoop(_, _, _, _, _, _, _, _)
BitmapLoop(freqs, ordered_keys, max_value, shape, k, i, j, cells) ==
    IF k > Len(ordered_keys) THEN cells
    ELSE BitmapLoop(freqs, ordered_keys, max_value, shape, k + 1,
                    IF (j % shape) + 1 = shape THEN i + 1 ELSE i,
                    (j % shape) + 1,
                    [cells EXCEPT ![i * shape + (j % shape) + 1] =
                        IF max_value # 0
                        THEN Frac(freqs[ordered_keys[k]], max_value)
                        ELSE <<0, 1>>])

BitmapOf(freqs, ordered_keys, max_value, shape) ==
    [raised |-> FALSE,
     shape |-> shape,
     cells |-> BitmapLoop(freqs, ordered_keys, max_value, shape, 1, 0, 0, Zeros(shape))]

\* A variant that divides by the sum of the counts.
BuildBitmapBySumOf(freqs, ordered_keys, shape) ==
    IF ordered_keys = <<>> \/ shape * shape # Len(ordered_keys) THEN Raised
    ELSE BitmapOf(freqs, ordered_keys, SumValue(freqs, ordered_keys, 1), shape)

BuildBitmapBySum(freqs) ==
    BuildBitmapBySumOf(freqs, Sorted(DOMAIN freqs), ISqrt(Cardinality(DOMAIN freqs)))

\* max() of an empty table raises ValueError.  When len(freqs) is no perfect
\* square, matrix_size is not integral: the array gets the truncated shape
\* (or is refused), j == matrix_size never holds, and the write of key
\* number shape+1 falls outside the array: IndexError.
BuildBitmapOf(freqs, ordered_keys, shape) ==
    IF ordered_keys = <<>> \/ shape * shape # Len(ordered_keys) THEN Raised
    ELSE BitmapOf(freqs, ordered_keys, MaxValue(freqs, ordered_keys, 1), shape)

BuildBitmap(freqs) ==
    BuildBitmapOf(freqs, Sorted(DOMAIN freqs), ISqrt(Cardinality(DOMAIN freqs)))

(***************************************************************************)
(* _get_words (lines 185-201).  The result is [raised, words, window]:     *)
(* window is the deque as the call leaves it.                              *)
(***************************************************************************)
\* islice(window, i*feature_size, (i+1)*feature_size) for i = k - 1
Slice(window, feature_size, k) ==
    SubSeq(window, (k - 1) * feature_size + 1, k * feature_size)

\* The words of the slices' encodings; the first that raises ends the call.
WordsOf(window, sax) ==
    IF \E k \in DOMAIN sax : sax[k].raised
    THEN [raised |-> TRUE, words |-> <<>>, window |-> window]
    ELSE [raised |-> FALSE, words |-> [k \in DOMAIN sax |-> sax[k].word],
          window |-> window]

\* A variant without the check of lines 191-193: a partial slice is dropped.
GetWordsTruncating(window, feature_size, wsize) ==
    WordsOf(window, [k \in 1..(Len(window) \div feature_size) |->
                        Sax(Slice(window, feature_size, k), wsize)])

GetWords(window, feature_size, wsize) ==
    IF Len(window) % feature_size # 0
    THEN [raised |-> TRUE, words |-> <<>>, window |-> window]
    ELSE WordsOf(window, [k \in 1..(Len(window) \div feature_size) |->
                             Sax(Slice(window, feature_size, k), wsize)])

(***************************************************************************)
(* detect (lines 205-239).                                                 *)
(***************************************************************************)
\* A variant with the literal 'abc'.
AlphabetOfThree == <<0, 1, 2>>

Alphabet == <<0, 1, 2, 3>>      \* the literal 'abcd' of lines 226 and 228

\* deque.append on a deque(maxlen=maxlen): a full deque drops its oldest
\* element, a deque of maxlen 0 keeps nothing.
DequeAppend(d, maxlen, x) ==
    IF maxlen = 0 THEN d
    ELSE IF Len(d) = maxlen THEN Append(Tail(d), x)
    ELSE Append(d, x)

\* A variant that does not move the evicted sample into the lag window.
IngestDropping(lead, lag, datapoint) ==
    IF Len(lead) = lead_window_size
    THEN IF lead = <<>>
         THEN [raised |-> TRUE, lead |-> lead, lag |-> lag]
         ELSE [raised |-> FALSE,
               lead |-> DequeAppend(Tail(lead), lead_window_size, datapoint),
               lag |-> lag]
    ELSE [raised |-> FALSE,
          lead |-> DequeAppend(lead, lead_window_size, datapoint),
          lag |-> lag]

\* Lines 213-215.  popleft on an empty deque (a lead window of capacity 0)
\* raises IndexError before anything is appended.
Ingest(lead, lag, datapoint) ==
    IF Len(lead) = lead_window_size
    THEN IF lead = <<>>
         THEN [raised |-> TRUE, lead |-> lead, lag |-> lag]
         ELSE [raised |-> FALSE,
               lead |-> DequeAppend(Tail(lead), lead_window_size, datapoint),
               lag |-> DequeAppend(lag, lag_window_size, Head(lead))]
    ELSE [raised |-> FALSE,
          lead |-> DequeAppend(lead, lead_window_size, datapoint),
          lag |-> lag]

\* A variant that only looks at the lead window.
CycleDueLeadOnly(lead, lag) == Len(lead) = lead_window_size

\* Lines 217-218.
CycleDue(lead, lag) ==
    Len(lead) = lead_window_size /\ Len(lag) = lag_window_size

\* Lines 231-237.
Analyse(lead_bitmap, lag_bitmap) ==
    IF lead_bitmap.raised \/ lag_bitmap.raised THEN Raised
    ELSE [raised |-> FALSE,
          analysis |-> [score |-> Dist(lead_bitmap.cells, lag_bitmap.cells),
                        bitmp1 |-> lead_bitmap,
                        bitmp2 |-> lag_bitmap]]

\* Lines 226-237.
Compare(lead_words, lag_words) ==
    IF lead_words.raised \/ lag_words.raised THEN Raised
    ELSE Analyse(BuildBitmap(CountFrequencies(lead_words.words, Alphabet, recursion_level)),
                 BuildBitmap(CountFrequencies(lag_words.words, Alphabet, recursion_level)))

\* Lines 219-237: the Analysis of the two windows, or the exception of a step.
Cycle(lead, lag) ==
    Compare(GetWords(lead, window_size, word_size),
            GetWords(lag, window_size, word_size))

\* The loop of lines 212-237 from datapoint number k on.  The outcome names
\* the windows as the loop leaves them, how it ended ("no" exception, the
\* exception of "popleft", or the exception of the detection "cycle"), the
\* list it built, and for the history: at[n] is the number of the datapoint
\* whose cycle appended analysis_result[n], and ingested counts the
\* datapoints appended to the lead window.
RECURSIVE DetectLoop(_, _, _, _, _, _)

\* Lines 234-237 for datapoint k, c being the outcome of its cycle.
Appended(c, lead, lag, datapoints, k, analysis_result, at) ==
    IF c.raised
    THEN [lead |-> lead, lag |-> lag, raised |-> "cycle",
          analysis_result |-> analysis_result, at |-> at, ingested |-> k]
    ELSE DetectLoop(lead, lag, datapoints, k + 1,
                    Append(analysis_result, c.analysis), Append(at, k))

\* Lines 217-237 for datapoint k, in being the outcome of lines 213-215.
Ingested(in, lead, lag, datapoints, k, analysis_result, at) ==
    IF in.raised
    THEN [lead |-> lead, lag |-> lag, raised |-> "popleft",
          analysis_result |-> analysis_result, at |-> at, ingested |-> k - 1]
    ELSE IF CycleDue(in.lead, in.lag)
    THEN Appended(Cycle(in.lead, in.lag), in.lead, in.lag, datapoints, k,
                  analysis_result, at)
    ELSE DetectLoop(in.lead, in.lag, datapoints, k + 1, analysis_result, at)

DetectLoop(lead, lag, datapoints, k, analysis_result, at) ==
    IF k > Len(datapoints)
    THEN [lead |-> lead, lag |-> lag, raised |-> "no",
          analysis_result |-> analysis_result, at |-> at, ingested |-> k - 1]
    ELSE Ingested(Ingest(lead, lag, datapoints[k]), lead, lag, datapoints, k,
                  analysis_result, at)

\* One detect call on a detector with the given windows.  result is the list
\* returned; a call that raises returns nothing, and computed counts the
\* results it had built.
DetectOutcome(loop, timestamp) ==
    [lead |-> loop.lead, lag |-> loop.lag, last_timestamp |-> timestamp,
     raised |-> loop.raised,
     result |-> IF loop.raised = "no" THEN loop.analysis_result ELSE <<>>,
     at |-> IF loop.raised = "no" THEN loop.at ELSE <<>>,
     ingested |-> loop.ingested,
     computed |-> Len(loop.analysis_result)]

\* A variant that records the timestamp after the loop.
LateTimestamp(outcome, old_timestamp) ==
    [outcome EXCEPT !.last_timestamp =
        IF outcome.raised = "no" THEN outcome.last_timestamp ELSE old_timestamp]

DetectRunLateTimestamp(lead, lag, old_timestamp, datapoints, timestamp) ==
    LateTimestamp(DetectOutcome(DetectLoop(lead, lag, datapoints, 1, <<>>, <<>>),
                                timestamp),
                  old_timestamp)

\* A variant that starts every call with an empty lag window.
DetectRunFreshLag(lead, lag, old_timestamp, datapoints, timestamp) ==
    DetectOutcome(DetectLoop(lead, <<>>, datapoints, 1, <<>>, <<>>), timestamp)

DetectRun(lead, lag, old_timestamp, datapoints, timestamp) ==
    DetectOutcome(DetectLoop(lead, lag, datapoints, 1, <<>>, <<>>), timestamp)

(***************************************************************************)
(* The detector: __init__ (lines 21-45) and calls of detect.               *)
(***************************************************************************)
Batches == SeqsUpTo(Samples, MaxBatch)

NoCall ==
    [made |-> FALSE, datapoints |-> <<>>, timestamp |-> TimestampMin, before |-> 0,
     lead_before |-> <<>>, lag_before |-> <<>>, timestamp_before |-> TimestampMin,
     raised |-> "no", result |-> <<>>, at |-> <<>>, ingested |-> 0, computed |-> 0]

NoProbe == [fn |-> "none"]

\* AssumptionFreeAA(word_size=ws, window_factor=wf, lead_window_factor=lf,
\*                  lag_window_factor=gf)
Construct(ws, wf, lf, gf) ==
    /\ word_size = ws
    /\ window_size = wf * ws
    /\ lead_window_size = lf * (wf * ws)
    /\ lag_window_size = gf * (wf * ws)
    /\ recursion_level = DefaultRecursionLevel
    /\ lead_window = <<>>
    /\ lag_window = <<>>
    /\ last_timestamp = TimestampMin
    /\ stream = <<>>
    /\ call = NoCall
    /\ one_per_call = TRUE
    /\ probe = NoProbe

universe_size == lead_window_size + lag_window_size

Init ==
    \E ws \in 1..MaxWordSize, wf \in 1..MaxWindowFactor,
       lf \in 0..MaxFactor, gf \in 0..MaxFactor :
        /\ (lf + gf) * wf * ws <= MaxUniverse
        /\ Construct(ws, wf, lf, gf)

\* The detector and the history after a detect call with outcome r.
Returned(datapoints, timestamp, r) ==
    /\ lead_window' = r.lead
    /\ lag_window' = r.lag
    /\ last_timestamp' = r.last_timestamp
    /\ stream' = stream \o SubSeq(datapoints, 1, r.ingested)
    /\ call' = [made |-> TRUE, datapoints |-> datapoints, timestamp |-> timestamp,
                before |-> Len(stream), lead_before |-> lead_window,
                lag_before |-> lag_window, timestamp_before |-> last_timestamp,
                raised |-> r.raised, result |-> r.result,
                at |-> r.at, ingested |-> r.ingested, computed |-> r.computed]
    /\ one_per_call' = (one_per_call /\ Len(datapoints) = 1)
    /\ UNCHANGED <<word_size, window_size, lead_window_size, lag_window_size,
                   recursion_level, probe>>

Detect(datapoints, timestamp) ==
    Returned(datapoints, timestamp,
             DetectRun(lead_window, lag_window, last_timestamp, datapoints, timestamp))

DetectAny ==
    \E datapoints \in Batches, timestamp \in Timestamps \ {last_timestamp} :
        /\ Len(stream) + Len(datapoints) <= universe_size + MaxExtra
        /\ Detect(datapoints, timestamp)

Next == DetectAny

Spec == Init /\ [][Next]_vars

(***************************************************************************)
(* The example of the specification: word_size=2, window_factor=2,         *)
(* lead_window_factor=1, lag_window_factor=1, fed the samples 1, 2, 3, ... *)
(***************************************************************************)
InitExample == Construct(2, 2, 1, 1)

\* [stream + 1, ..., stream + n]
Ramp(from, n) == [i \in 1..n |-> from + i]

DetectRamp ==
    \E n \in 0..MaxBatch, timestamp \in Timestamps \ {last_timestamp} :
        /\ Len(stream) + n <= MaxRamp
        /\ Detect(Ramp(Len(stream), n), timestamp)

NextExample == DetectRamp

SpecExample == InitExample /\ [][NextExample]_vars

(***************************************************************************)
(* The classmethods called directly, on arguments of bounded size.         *)
(***************************************************************************)
Windows == SeqsUpTo(1..MaxVal, MaxWindow)

\* The lists of at most count words of at most budget letters in all.
RECURSIVE WordListsOf(_, _)
WordListsOf(budget, count) ==
    IF count = 0 THEN {<<>>}
    ELSE {<<>>} \cup
         UNION {{<<w>> \o rest : rest \in WordListsOf(budget - Len(w), count - 1)} :
                    w \in SeqsUpTo(WordLetters, budget)}

WordLists == WordListsOf(MaxLetters, MaxWords)

\* '', 'a', 'ab', 'abc', 'abcd'
Alphabets == {SubSeq(Alphabet, 1, n) : n \in 0..Len(Alphabet)}

\* AssumptionFreeAA() with the defaults of lines 21-23
InitFn == Construct(10, 100, 3, 30)

detector == <<word_size, window_size, lead_window_size, lag_window_size,
              recursion_level, lead_window, lag_window, last_timestamp,
              stream, call, one_per_call>>

CallGetWords ==
    /\ probe.fn = "none"
    /\ \E window \in Windows, feature_size \in 1..MaxWindow, wsize \in 1..MaxWordSize :
          probe' = [fn |-> "_get_words", window |-> window,
                    feature_size |-> feature_size, word_size |-> wsize,
                    out |-> GetWords(window, feature_size, wsize)]
    /\ UNCHANGED detector

CallCountFrequencies ==
    /\ probe.fn = "none"
    /\ \E words \in WordLists, alphabet \in Alphabets, subword_len \in 1..MaxSubword :
          probe' = [fn |-> "_count_frequencies", words |-> words,
                    alphabet |-> alphabet, subword_len |-> subword_len,
                    out |-> CountFrequencies(words, alphabet, subword_len)]
    /\ UNCHANGED detector

\* _build_bitmap on the table _count_frequencies returned
CallBuildBitmap ==
    /\ probe.fn = "_count_frequencies"
    /\ probe' = [fn |-> "_build_bitmap", freqs |-> probe.out,
                 out |-> BuildBitmap(probe.out)]
    /\ UNCHANGED detector

NextFn == CallGetWords \/ CallCountFrequencies \/ CallBuildBitmap

SpecFn == InitFn /\ [][NextFn]_vars

(***************************************************************************)
(* Properties.  Samples are numbered in the order of their ingestion:      *)
(* sample p is stream[p], and the last detect call ingested the samples    *)
(* call.before + 1 .. call.before + call.ingested.                         *)
(***************************************************************************)
Min(a, b) == IF a < b THEN a ELSE b
Max(a, b) == IF a > b THEN a ELSE b

\* What arrival order puts into the windows once sample p is ingested.
LeadLen(p) == Min(p, lead_window_size)
LagLen(p) == Min(Max(p - lead_window_size, 0), lag_window_size)
LeadAt(p) == SubSeq(stream, p - LeadLen(p) + 1, p)
LagAt(p) == SubSeq(stream, p - LeadLen(p) - LagLen(p) + 1, p - LeadLen(p))

\* The datapoints of a call of n datapoints, made after `before` samples,
\* that complete or follow the first universe_size samples, in order.
FirstDue(before) == Max(universe_size - before, 1)
DueSamples(before, n) ==
    [j \in 1..Max(n - FirstDue(before) + 1, 0) |-> FirstDue(before) + j - 1]

\* Slice k of feature_size samples of a window is constant.
ConstantSlice(window, feature_size, k) ==
    \A i, j \in ((k - 1) * feature_size + 1)..(k * feature_size) :
        window[i] = window[j]
HasConstantSlice(window, feature_size) ==
    \E k \in 1..(Len(window) \div feature_size) :
        ConstantSlice(window, feature_size, k)

\* C2: after n samples ingested in all, neither window exceeds its capacity,
\* lead holds the last min(n, lead capacity) samples in arrival order, lag
\* holds the min(max(n - lead capacity, 0), lag capacity) samples just before
\* them, lag followed by lead is a suffix of the stream, and lag is non-empty
\* only when lead is full.
C2_Windows ==
    /\ Len(lead_window) <= lead_window_size
    /\ Len(lag_window) <= lag_window_size
    /\ Len(lead_window) = LeadLen(Len(stream))
    /\ Len(lag_window) = LagLen(Len(stream))
    /\ \A i \in 1..Len(lead_window) :
          lead_window[i] = stream[Len(stream) - Len(lead_window) + i]
    /\ \A i \in 1..Len(lag_window) :
          lag_window[i] = stream[Len(stream) - Len(lead_window) - Len(lag_window) + i]
    /\ (lag_window # <<>> => Len(lead_window) = lead_window_size)

\* Both windows are full, the lag window has evicted samples, and the last
\* call moved samples from one window to the other.
C2_Witness ==
    /\ lead_window_size > 0 /\ lag_window_size > 0
    /\ Len(stream) > universe_size
    /\ call.made /\ call.ingested >= 2
    /\ lead_window # lag_window

\* C1 (as amended): a call that ends with fewer than universe_size samples
\* ingested in all returns no result, and a call that returns normally has
\* ingested all its datapoints and returns exactly one result, in order, for
\* each of them that completes or follows the first universe_size samples.
C1_ReturningCalls ==
    /\ (call.made /\ Len(stream) < universe_size => call.result = <<>>)
    /\ (call.made /\ call.raised = "no" =>
          /\ call.ingested = Len(call.datapoints)
          /\ call.at = DueSamples(call.before, Len(call.datapoints))
          /\ Len(call.result) = Len(call.at))

\* One call that returns normally ingests samples before and after the
\* windows first fill, and returns two results.
C1_Witness ==
    /\ call.made /\ call.raised = "no"
    /\ lag_window_size > 0
    /\ 0 < call.before /\ call.before < universe_size - 1
    /\ Len(call.result) = 2

\* C1 as stated: every call, of a detector with both capacities positive and
\* slices of two samples or more, returns one result for each sample it
\* ingested that completes or follows the first universe_size samples.
C1_OneResultPerSample ==
    call.made /\ lead_window_size > 0 /\ lag_window_size > 0 /\ window_size >= 2 =>
        Len(call.result) = Len(DueSamples(call.before, call.ingested))

\* The bitmaps of an Analysis are side x side.
BitmapsAre(analysis, side) ==
    /\ analysis.bitmp1.shape = side /\ Len(analysis.bitmp1.cells) = side * side
    /\ analysis.bitmp2.shape = side /\ Len(analysis.bitmp2.cells) = side * side

\* C3 (as amended): the detector has word_size 2 and capacities 4 and 4, and
\* fed 1, 2, ..., 8 one sample per call, calls 1-7 return empty lists and
\* call 8 returns exactly one Analysis, whose bitmaps are 4x4.
C3_Example ==
    /\ word_size = 2 /\ window_size = 4
    /\ lead_window_size = 4 /\ lag_window_size = 4
    /\ stream = [i \in 1..Len(stream) |-> i]
    /\ (one_per_call /\ call.made /\ Len(stream) \in 1..7 =>
          call.raised = "no" /\ call.result = <<>>)
    /\ (one_per_call /\ call.made /\ Len(stream) = 8 =>
          /\ call.raised = "no"
          /\ Len(call.result) = 1
          /\ BitmapsAre(call.result[1], 4))

\* The eighth of eight calls of one sample each has returned its Analysis.
C3_Witness ==
    /\ one_per_call /\ call.made /\ Len(stream) = 8
    /\ call.datapoints = <<8>>
    /\ Len(call.result) = 1

\* C3 as stated: calls 1-4 return empty lists and calls 5-8 one Analysis each.
C3_CallsFiveToEight ==
    /\ (one_per_call /\ call.made /\ Len(stream) \in 1..4 => call.result = <<>>)
    /\ (one_per_call /\ call.made /\ Len(stream) \in 5..8 =>
          Len(call.result) = 1 /\ BitmapsAre(call.result[1], 4))

\* C4: every Analysis a call returns for a cycle that met a lead window and a
\* lag window with the same samples in the same order has score 0 and equal
\* bitmaps.
C4_IdenticalWindows ==
    call.made =>
        \A n \in 1..Len(call.result) :
            LeadAt(call.before + call.at[n]) = LagAt(call.before + call.at[n]) =>
                /\ call.result[n].score = <<0, 1>>
                /\ call.result[n].bitmp1 = call.result[n].bitmp2

\* A cycle met identical windows that are not constant, and the bitmaps it
\* built are not all zero.
C4_Witness ==
    /\ call.made /\ call.result # <<>>
    /\ lead_window = lag_window
    /\ call.at[Len(call.at)] = Len(call.datapoints)
    /\ \E c \in DOMAIN call.result[Len(call.result)].bitmp1.cells :
          call.result[Len(call.result)].bitmp1.cells[c][1] > 0

\* The words the i-th slices of a window encode to, each slice taken from the
\* window sample by sample.
SliceOf(window, feature_size, k) ==
    [j \in 1..feature_size |-> window[(k - 1) * feature_size + j]]
SliceWords(window, feature_size, wsize) ==
    [k \in 1..(Len(window) \div feature_size) |->
        Sax(SliceOf(window, feature_size, k), wsize)]
AllEncoded(out, sax) ==
    /\ ~out.raised
    /\ Len(out.words) = Len(sax)
    /\ \A k \in DOMAIN sax : out.words[k] = sax[k].word
EncodedUnlessRaised(out, sax) ==
    IF \E k \in DOMAIN sax : sax[k].raised
    THEN out.raised /\ out.words = <<>>
    ELSE AllEncoded(out, sax)

\* C5 (as amended): _get_words leaves the window unchanged; it fails, with no
\* words, when len(window) % feature_size # 0 and when the SAX encoding of a
\* slice raises; otherwise it returns len(window)/feature_size words, the i-th
\* being the encoding of the i-th slice of feature_size samples.
C5_GetWords ==
    probe.fn = "_get_words" =>
        /\ probe.out.window = probe.window
        /\ IF Len(probe.window) % probe.feature_size # 0
           THEN probe.out.raised /\ probe.out.words = <<>>
           ELSE EncodedUnlessRaised(probe.out,
                    SliceWords(probe.window, probe.feature_size, probe.word_size))

\* _get_words returned the words of two slices that differ.
C5_Witness ==
    /\ probe.fn = "_get_words"
    /\ ~probe.out.raised
    /\ Len(probe.out.words) = 2
    /\ probe.feature_size = 2
    /\ probe.out.words[1] # probe.out.words[2]

\* C5 as stated: whenever len(window) % feature_size = 0, _get_words returns
\* len(window)/feature_size words (even with slices of two samples or more,
\* and no shorter than a word).
C5_AlignedWindowsReturn ==
    /\ probe.fn = "_get_words"
    /\ Len(probe.window) % probe.feature_size = 0
    /\ probe.feature_size >= 2 /\ probe.word_size <= probe.feature_size
    => /\ ~probe.out.raised
       /\ Len(probe.out.words) = Len(probe.window) \div probe.feature_size

Rank(freqs, key) == Cardinality({k \in DOMAIN freqs : StrLess(k, key)})
Largest(freqs) ==
    CHOOSE m \in Range(freqs) : \A k \in DOMAIN freqs : freqs[k] <= m

\* cell is the float count / max.
IsQuotient(cell, count, max) ==
    cell[2] > 0 /\ cell[1] * max = count * cell[2]

LaidOut(freqs, bitmap, max) ==
    /\ bitmap.shape * bitmap.shape = Cardinality(DOMAIN freqs)
    /\ Len(bitmap.cells) = bitmap.shape * bitmap.shape
    /\ \A r, c \in 0..(bitmap.shape - 1) :
          \E key \in DOMAIN freqs :
              /\ Rank(freqs, key) = r * bitmap.shape + c
              /\ IF max = 0
                 THEN bitmap.cells[r * bitmap.shape + c + 1][1] = 0
                 ELSE IsQuotient(bitmap.cells[r * bitmap.shape + c + 1],
                                 freqs[key], max)
    /\ \A c \in DOMAIN bitmap.cells :
          /\ 0 <= bitmap.cells[c][1]
          /\ bitmap.cells[c][1] <= bitmap.cells[c][2]

IsSquare(n) == \E s \in 1..n : s * s = n

\* C7: the bitmap built from a frequency table is square of side
\* sqrt(|table|), its cell (r, c) is the count of the key of rank r*side + c
\* in sorted key order divided by the largest count, or 0 when the largest
\* count is 0, and every cell lies in [0, 1]; _build_bitmap builds a bitmap
\* for the tables whose size is a square, and only for them.
C7_Bitmap ==
    probe.fn = "_build_bitmap" =>
        /\ probe.out.raised = ~IsSquare(Cardinality(DOMAIN probe.freqs))
        /\ (~probe.out.raised =>
              LaidOut(probe.freqs, probe.out, Largest(probe.freqs)))

\* C7, its consequence for detect (under Spec): every bitmap of every
\* Analysis a call returns is 4x4 with cells in [0, 1].
CellsInUnit(bitmap) ==
    \A c \in DOMAIN bitmap.cells :
        /\ 0 <= bitmap.cells[c][1]
        /\ bitmap.cells[c][1] <= bitmap.cells[c][2]
C7_DetectBitmaps ==
    \A n \in DOMAIN call.result :
        /\ BitmapsAre(call.result[n], 4)
        /\ CellsInUnit(call.result[n].bitmp1)
        /\ CellsInUnit(call.result[n].bitmp2)

\* A 4x4 bitmap with a cell strictly between 0 and 1.
C7_Witness ==
    /\ probe.fn = "_build_bitmap"
    /\ ~probe.out.raised
    /\ probe.out.shape = 4
    /\ \E c \in DOMAIN probe.out.cells :
          0 < probe.out.cells[c][1] /\ probe.out.cells[c][1] < probe.out.cells[c][2]

\* The occurrences of key in the words, those that overlap included: the
\* pairs of a word and a position at which the word reads key.
Occurrences(words, key) ==
    {wi \in (DOMAIN words) \X (1..MaxLetters) :
        /\ wi[2] + Len(key) - 1 <= Len(words[wi[1]])
        /\ \A j \in 1..Len(key) : words[wi[1]][wi[2] + j - 1] = key[j]}

RECURSIVE Power(_, _)
Power(a, n) == IF n = 0 THEN 1 ELSE a * Power(a, n - 1)

\* C8: the table _count_frequencies returns has as keys exactly the strings
\* of length subword_len over the alphabet, |alphabet|^subword_len of them
\* whatever the words, and as the value of a key the number of its
\* occurrences, overlapping ones included, in all the words.
C8_Frequencies ==
    probe.fn = "_count_frequencies" =>
        /\ DOMAIN probe.out = [1..probe.subword_len -> Range(probe.alphabet)]
        /\ Cardinality(DOMAIN probe.out) = Power(Len(probe.alphabet), probe.subword_len)
        /\ \A key \in DOMAIN probe.out :
              probe.out[key] = Cardinality(Occurrences(probe.words, key))

\* 'aa' is counted three times in 'aaaa', and a key no word contains zero times.
C8_Witness ==
    /\ probe.fn = "_count_frequencies"
    /\ probe.words = << <<0, 0, 0, 0>> >>
    /\ probe.alphabet = Alphabet
    /\ probe.subword_len = 2
    /\ probe.out[<<0, 0>>] = 3
    /\ probe.out[<<3, 3>>] = 0

\* detect(xs) followed by detect(ys) on the detector the last call met; an
\* exception of detect(xs) leaves the sequence, and detect(ys) is not called.
AfterFirst(first, ys) ==
    IF first.raised # "no" THEN first
    ELSE DetectRun(first.lead, first.lag, first.last_timestamp, ys, call.timestamp)

ResultsOfBoth(first, second) ==
    IF first.raised # "no" THEN <<>> ELSE first.result \o second.result

SplitRun(first, second) ==
    [lead |-> second.lead, lag |-> second.lag, raised |-> second.raised,
     results |-> ResultsOfBoth(first, second)]

SplitOutcome(first, ys) == SplitRun(first, AfterFirst(first, ys))

\* The last call's datapoints split into xs ++ ys after i of them.
SplitAt(i) ==
    SplitOutcome(DetectRun(call.lead_before, call.lag_before, call.timestamp_before,
                           SubSeq(call.datapoints, 1, i), call.timestamp),
                 SubSeq(call.datapoints, i + 1, Len(call.datapoints)))

SameWindows(split) ==
    /\ split.lead = lead_window
    /\ split.lag = lag_window
    /\ (split.raised = "no") = (call.raised = "no")

\* C9 (as amended): for every split xs ++ ys of the datapoints of a call,
\* detect(xs) followed by detect(ys) leaves the windows the single call
\* leaves, and raises if and only if the single call does; when the single
\* call returns, the two lists concatenated are the list it returns; a call
\* with no datapoints returns an empty list and changes only last_timestamp.
C9_Batching ==
    /\ (call.made =>
          \A i \in 0..Len(call.datapoints) :
              /\ SameWindows(SplitAt(i))
              /\ (call.raised = "no" => SplitAt(i).results = call.result))
    /\ (call.made /\ call.datapoints = <<>> =>
          /\ call.raised = "no" /\ call.result = <<>>
          /\ lead_window = call.lead_before /\ lag_window = call.lag_before
          /\ Len(stream) = call.before
          /\ last_timestamp = call.timestamp)

\* A call of three samples that returned two results, on a detector with a
\* lag window that the samples before had not filled.
C9_Witness ==
    /\ call.made /\ call.raised = "no"
    /\ Len(call.datapoints) = 3
    /\ Len(call.result) = 2
    /\ lag_window_size > 0
    /\ Len(call.lag_before) < lag_window_size

\* C9 as stated: for every split of the datapoints of every call, the lists
\* the two calls return, concatenated, are the list the single call returns
\* (a call that raises returning none), and the windows are the same; stated
\* for the detectors with both capacities positive.
C9_AnyBatching ==
    call.made /\ lead_window_size > 0 /\ lag_window_size > 0 =>
        \A i \in 0..Len(call.datapoints) :
            /\ SplitAt(i).lead = lead_window
            /\ SplitAt(i).lag = lag_window
            /\ SplitAt(i).results = call.result

\* lag ++ lead after the samples xs are appended to lag ++ lead.
Later(lag, lead, xs) == lag \o lead \o xs
LastOf(s, n) == SubSeq(s, Len(s) - n + 1, Len(s))
ButLast(s, n) == SubSeq(s, 1, Len(s) - n)

\* C10: a call that raises from the cycle of its k-th datapoint returns
\* nothing, though it had built a result for every earlier datapoint that was
\* due one; last_timestamp is the call's timestamp; the windows hold the
\* samples up to the k-th and none after it; and the call met the windows
\* the call before it left, whether that call returned or raised.
C10_FailingCall ==
    /\ (call.raised = "cycle" =>
          /\ call.result = <<>>
          /\ call.ingested \in 1..Len(call.datapoints)
          /\ call.computed = Len(DueSamples(call.before, call.ingested - 1))
          /\ last_timestamp = call.timestamp
          /\ last_timestamp # call.timestamp_before
          /\ stream = SubSeq(stream, 1, call.before)
                        \o SubSeq(call.datapoints, 1, call.ingested)
          /\ lead_window =
                LastOf(Later(call.lag_before, call.lead_before,
                             SubSeq(call.datapoints, 1, call.ingested)),
                       lead_window_size)
          /\ lag_window =
                LastOf(ButLast(Later(call.lag_before, call.lead_before,
                                     SubSeq(call.datapoints, 1, call.ingested)),
                               lead_window_size),
                       lag_window_size))
    /\ (call.made =>
          /\ call.lead_before = LeadAt(call.before)
          /\ call.lag_before = LagAt(call.before))

\* A call built a result for its first datapoint, raised from the cycle of
\* its second, and left the third.
C10_Witness ==
    /\ call.raised = "cycle"
    /\ lag_window_size > 0
    /\ call.computed >= 1
    /\ call.ingested < Len(call.datapoints)

====
